---- MODULE Spec2Model ----
(***************************************************************************)
(* A model of the activitypub vocabulary package: the Collection and Actor *)
(* records, their constructors, their decode entry points (alone and two   *)
(* at a time), the Collection encoder, Append / Count / Contains, the      *)
(* recipient list operations and the view conversions ToActor /            *)
(* ToCollection.                                                           *)
(*                                                                         *)
(* Go values are modelled as follows.                                      *)
(*   - an Item (interface value holding a reference) is a record           *)
(*     [kind, id]; the nil interface is NilItem;                           *)
(*   - an ItemCollection (slice of Item) is a sequence, nil and empty      *)
(*     slices both being <<>> (the encoder, which tells them apart, is     *)
(*     told which of the two an empty sequence is);                        *)
(*   - a raw JSON value is a record [t, v] where t is the token type the   *)
(*     jsonparser library reports (NotExist, String, Number, Array,        *)
(*     Object);                                                            *)
(*   - the error result of a call is the string "nil" or an error text.    *)
(***************************************************************************)
EXTENDS Integers, Sequences, FiniteSets, TLC

VARIABLES
    ItemTyperFunc,  \* the process-wide decoder registry hook
    c,              \* the Collection under operation
    a,              \* the Actor under operation
    it,             \* the Item handed to the last view conversion
    p,              \* the PublicKey receiver of PublicKey.UnmarshalJSON
    data,           \* the raw public-key record handed to PublicKey.UnmarshalJSON
    ret,            \* what the last call returned (and what it was given)
    cleaned,        \* history of Clean() on the actor
    fresh,          \* a second receiver: the value a document is decoded into
                    \* beside c or a
    pc              \* where each concurrent decode call stands

vars == <<ItemTyperFunc, c, a, it, p, data, ret, cleaned, fresh, pc>>

----------------------------------------------------------------------------
(* Bounds of the model *)

\* longest items sequence a Collection is grown to
MaxItems == 3
\* largest explicit totalItems value tried
MaxTotalItems == 5
\* most entries spread over the five addressee lists of an addressed actor
MaxRecipients == 3
\* most entries the five addressee lists of an actor hold after a decode
MaxDecoded == 2
\* most addressee entries one decoded document carries
MaxDocItems == 1

----------------------------------------------------------------------------
(* Identifiers, items, sequences *)

IRIs == {"A", "B", "C"}

NilItem == [kind |-> "nil", id |-> ""]

\* IRI(x): a bare link reference
IRIItem(x) == [kind |-> "IRI", id |-> x]

\* an embedded object carrying an id
ObjectItem(x) == [kind |-> "Object", id |-> x]

\* GetLink of a reference: the IRI itself for a link, IRI(ID) for an entity
GetLink(i) == i.id

Range(s) == {s[i] : i \in 1..Len(s)}

SeqsUpTo(S, n) == UNION {[1..k -> S] : k \in 0..n}

Ids(s) == [i \in 1..Len(s) |-> GetLink(s[i])]

NoRet == [op |-> "none"]

\* the goroutines that call a decoder at the same time
Procs == {"g1", "g2"}

----------------------------------------------------------------------------
(* Raw JSON documents, as the jsonparser accessors see them *)

NotExist == [t |-> "NotExist"]
JString(s) == [t |-> "String", v |-> s]
JNumber(n) == [t |-> "Number", v |-> n]
JArray(s) == [t |-> "Array", v |-> s]
JObject(r) == [t |-> "Object", v |-> r]

\* jsonparser.Get(data, key): a buffer that is no JSON document holds no key
Get(doc, key) == IF doc.valid THEN doc[key] ELSE NotExist

\* JSONGetID: the "id" string, the empty ID when it is absent
JSONGetID(doc) ==
    LET v == Get(doc, "id") IN IF v.t = "String" THEN v.v ELSE ""

\* JSONGetType: the "type" string, the generic Object discriminator when absent
JSONGetType(doc) ==
    LET v == Get(doc, "type") IN IF v.t = "String" THEN v.v ELSE "Object"

\* JSONGetInt: the number under key, 0 on a soft miss
JSONGetInt(doc, key) ==
    LET v == Get(doc, key) IN IF v.t = "Number" THEN v.v ELSE 0

\* JSONGetItem: a string is a bare link, anything else a soft miss (nil)
JSONGetItem(doc, key) ==
    LET v == Get(doc, key) IN IF v.t = "String" THEN IRIItem(v.v) ELSE NilItem

\* JSONGetItems: an array of strings is a collection of bare links, a single
\* string a collection of one, anything else a soft miss (nil)
JSONGetItems(doc, key) ==
    LET v == Get(doc, key)
    IN  CASE v.t = "Array" -> [i \in 1..Len(v.v) |-> IRIItem(v.v[i])]
          [] v.t = "String" -> <<IRIItem(v.v)>>
          [] OTHER -> <<>>

\* JSONGetNaturalLanguageField: a bare string is one entry under the empty
\* language tag, an object one entry for each language tag it is keyed by, a
\* missing key the empty container
JSONGetNaturalLanguageField(doc, key) ==
    LET v == Get(doc, key)
    IN  CASE v.t = "String" -> <<[lang |-> "", value |-> v.v]>>
          [] v.t = "Object" -> v.v
          [] OTHER -> <<>>

\* x when the decoded list has entries, the receiver's list otherwise
IfAny(x, old) == IF Len(x) > 0 THEN x ELSE old

\* x when the decoded reference is not nil, the receiver's reference otherwise
IfNotNil(x, old) == IF x # NilItem THEN x ELSE old

\* the zero Source: no content, no media type
ZeroSource == [Content |-> <<>>, MediaType |-> ""]

\* GetAPSource: the content and media type of the "source" record, the zero
\* Source when there is none
GetAPSource(doc) ==
    LET v == Get(doc, "source")
    IN  IF v.t = "Object"
        THEN [Content |-> IF v.v.content.t = "String"
                          THEN <<[lang |-> "", value |-> v.v.content.v]>> ELSE <<>>,
              MediaType |-> IF v.v.mediaType.t = "String" THEN v.v.mediaType.v ELSE ""]
        ELSE ZeroSource

\* the conversion uint(x) of a Go int: the documents decoded here carry counts
\* in 0..MaxTotalItems only, where the conversion keeps the number
Uint(x) == x

\* the nil-check and default of the registry hook that opens both decoders
DefaultItemTyperFunc(f) == IF f = "nil" THEN "JSONGetItemByType" ELSE f

----------------------------------------------------------------------------
(* Collection *)

CollectionNew(id) ==
    [ID |-> id, Type |-> "Collection",
     Name |-> <<>>, Content |-> <<>>, Summary |-> <<>>,
     InReplyTo |-> <<>>,
     To |-> <<>>, Bto |-> <<>>, CC |-> <<>>, BCC |-> <<>>, Audience |-> <<>>,
     Replies |-> NilItem, Tag |-> <<>>,
     Likes |-> NilItem, Shares |-> NilItem, Source |-> ZeroSource,
     Current |-> NilItem, First |-> NilItem, Last |-> NilItem,
     TotalItems |-> 0, Items |-> <<>>]

\* a Count that does what its comment says (the larger of the two numbers)
CountMax(col) ==
    IF col.TotalItems > Len(col.Items) THEN col.TotalItems ELSE Len(col.Items)

Count(col) ==
    IF col.TotalItems > 0 THEN col.TotalItems ELSE Len(col.Items)

\* c.Items = append(c.Items, ob)
AppendItem(col, ob) == [col EXCEPT !.Items = Append(@, ob)]

CollectionUnmarshal(col, doc) ==
    [col EXCEPT !.ID = JSONGetID(doc),
                !.Type = JSONGetType(doc),
                !.Name = JSONGetNaturalLanguageField(doc, "name"),
                !.Content = JSONGetNaturalLanguageField(doc, "content"),
                !.Summary = JSONGetNaturalLanguageField(doc, "summary"),
                !.InReplyTo = IfAny(JSONGetItems(doc, "inReplyTo"), @),
                !.To = IfAny(JSONGetItems(doc, "to"), @),
                !.Audience = IfAny(JSONGetItems(doc, "audience"), @),
                !.Bto = IfAny(JSONGetItems(doc, "bto"), @),
                !.CC = IfAny(JSONGetItems(doc, "cc"), @),
                !.BCC = IfAny(JSONGetItems(doc, "bcc"), @),
                !.Replies = IfNotNil(JSONGetItem(doc, "replies"), @),
                !.Tag = IfAny(JSONGetItems(doc, "tag"), @),
                !.TotalItems = Uint(JSONGetInt(doc, "totalItems")),
                !.Items = JSONGetItems(doc, "items"),
                !.Current = JSONGetItem(doc, "current"),
                !.First = JSONGetItem(doc, "first"),
                !.Last = JSONGetItem(doc, "last")]

\* what Append is handed
AppendItems == {IRIItem(x) : x \in IRIs} \cup {ObjectItem("A")}

\* the collection documents decoded
CollectionDocs ==
    {[valid |-> ok, id |-> JString("col"), type |-> JString("Collection"),
      name |-> NotExist, content |-> NotExist, summary |-> NotExist,
      inReplyTo |-> NotExist,
      to |-> NotExist, bto |-> NotExist, cc |-> NotExist, bcc |-> NotExist,
      audience |-> NotExist, replies |-> NotExist, tag |-> NotExist,
      likes |-> NotExist, shares |-> NotExist, source |-> NotExist,
      totalItems |-> n, items |-> s,
      current |-> NotExist, first |-> NotExist, last |-> NotExist] :
        ok \in BOOLEAN,
        n \in {NotExist} \cup {JNumber(k) : k \in 0..MaxTotalItems},
        s \in {NotExist} \cup {JArray(q) : q \in SeqsUpTo(IRIs, MaxDocItems)}}

CollectionAppend ==
    /\ Len(c.Items) < MaxItems
    /\ \E ob \in AppendItems :
         /\ c' = AppendItem(c, ob)
         /\ ret' = [op |-> "Append", err |-> "nil"]
    /\ UNCHANGED <<fresh, pc, ItemTyperFunc, a, it, p, data, cleaned>>

CollectionCount ==
    /\ ret' = [op |-> "Count", val |-> Count(c)]
    /\ UNCHANGED <<fresh, pc, ItemTyperFunc, c, a, it, p, data, cleaned>>

CollectionUnmarshalJSON ==
    /\ \E doc \in CollectionDocs :
         /\ ItemTyperFunc' = DefaultItemTyperFunc(ItemTyperFunc)
         /\ c' = CollectionUnmarshal(c, doc)
         /\ ret' = [op |-> "Collection.UnmarshalJSON", err |-> "nil",
                    valid |-> doc.valid]
    /\ UNCHANGED <<fresh, pc, a, it, p, data, cleaned>>

\* an IRI taken apart: scheme, host and path, and the fragment that trails it
Ref(scheme, path, frag) ==
    [scheme |-> scheme, host |-> "x", path |-> path, frag |-> frag]

Refs == {Ref(sch, pth, frg) : sch \in {"http", "https"}, pth \in {"/a", "/b"},
                              frg \in {"", "#f"}}

\* IRI.Equals(with, strict): byte for byte in the strict mode; in the tolerant
\* mode the scheme and the trailing fragment are left out of the comparison
Equals(r, with, strict) ==
    IF strict THEN r = with
    ELSE r.host = with.host /\ r.path = with.path

\* a Contains that compares byte for byte
ContainsStrict(col, r) ==
    IF Len(col.Items) = 0 THEN FALSE
    ELSE \E i \in 1..Len(col.Items) : Equals(r, GetLink(col.Items[i]), TRUE)

Contains(col, r) ==
    IF Len(col.Items) = 0 THEN FALSE
    ELSE \E i \in 1..Len(col.Items) : Equals(r, GetLink(col.Items[i]), FALSE)

\* the references appended to a collection whose membership is asked for
RefItems ==
    {IRIItem(Ref("https", "/a", "")), IRIItem(Ref("https", "/a", "#f")),
     IRIItem(Ref("http", "/a", "")), IRIItem(Ref("https", "/b", "")),
     ObjectItem(Ref("https", "/b", "#f"))}

CollectionAppendRef ==
    /\ Len(c.Items) < MaxItems
    /\ \E ob \in RefItems :
         /\ c' = AppendItem(c, ob)
         /\ ret' = [op |-> "Append", err |-> "nil", ob |-> ob]
    /\ UNCHANGED <<ItemTyperFunc, a, it, p, data, cleaned, fresh, pc>>

CollectionContains ==
    /\ \E r \in Refs :
         ret' = [op |-> "Contains", r |-> r, val |-> Contains(c, r)]
    /\ UNCHANGED <<ItemTyperFunc, c, a, it, p, data, cleaned, fresh, pc>>

----------------------------------------------------------------------------
(* PublicKey *)

ZeroPublicKey == [ID |-> "", Owner |-> NilItem, PublicKeyPem |-> ""]

\* jsonparser.GetString(data, key): the text of a string token, an error for a
\* key that is missing and for a value that is no string
GetString(rec, key) ==
    IF rec[key].t = "String"
    THEN [val |-> rec[key].v, err |-> "nil"]
    ELSE [val |-> "",
          err |-> IF rec[key].t = "NotExist" THEN "Key path not found"
                  ELSE "Value is not a string"]

\* a decoder that takes the PEM text as optional
PublicKeyUnmarshalLax(key, rec) ==
    LET id == GetString(rec, "id")
        o == GetString(rec, "owner")
        pub == GetString(rec, "publicKeyPem")
    IN  IF id.err # "nil" THEN [key |-> key, err |-> id.err]
        ELSE IF o.err # "nil"
             THEN [key |-> [key EXCEPT !.ID = id.val], err |-> o.err]
        ELSE [key |-> [key EXCEPT !.ID = id.val, !.Owner = IRIItem(o.val),
                                  !.PublicKeyPem = pub.val],
              err |-> "nil"]

\* PublicKey.UnmarshalJSON on receiver key: the receiver afterwards, and the error
PublicKeyUnmarshal(key, rec) ==
    LET id == GetString(rec, "id")
        o == GetString(rec, "owner")
        pub == GetString(rec, "publicKeyPem")
    IN  IF id.err # "nil" THEN [key |-> key, err |-> id.err]
        ELSE IF o.err # "nil"
             THEN [key |-> [key EXCEPT !.ID = id.val], err |-> o.err]
        ELSE IF pub.err # "nil"
             THEN [key |-> [key EXCEPT !.ID = id.val, !.Owner = IRIItem(o.val)],
                   err |-> pub.err]
        ELSE [key |-> [key EXCEPT !.ID = id.val, !.Owner = IRIItem(o.val),
                                  !.PublicKeyPem = pub.val],
              err |-> "nil"]

\* the values one sub-field of a public-key record takes: missing, a string,
\* or present with a value that is no string
KeyFieldValues(strs) == {NotExist, JNumber(5)} \cup {JString(x) : x \in strs}

KeyRecords ==
    [id : KeyFieldValues({"key1", "key2"}),
     owner : KeyFieldValues({"A", "B"}),
     publicKeyPem : KeyFieldValues({"PEM1", "PEM2"})]

PublicKeyUnmarshalJSON ==
    /\ \E rec \in KeyRecords :
         LET r == PublicKeyUnmarshal(p, rec)
         IN  /\ data' = rec
             /\ p' = r.key
             /\ ret' = [op |-> "PublicKey.UnmarshalJSON", err |-> r.err]
    /\ UNCHANGED <<fresh, pc, ItemTyperFunc, c, a, it, cleaned>>

----------------------------------------------------------------------------
(* Actor *)

ActorTypes == {"Application", "Group", "Organization", "Person", "Service"}

\* the fields every Object-shaped record has (those the model carries; the
\* other optional attributes are decoded and encoded the way Likes is)
SharedFields ==
    {"ID", "Type", "Name", "Content", "Summary",
     "InReplyTo", "To", "Bto", "CC", "BCC", "Audience",
     "Replies", "Tag", "Likes", "Shares", "Source"}

\* the fields only an Actor has
ActorOnlyFields ==
    {"Inbox", "Outbox", "Following", "Followers", "Liked",
     "PreferredUsername", "Endpoints", "Streams", "PublicKey"}

ActorFields == SharedFields \cup ActorOnlyFields

\* OrderedCollectionNew(id), held by reference: the id and the type set, the
\* name and content containers made, no items and no total
OrderedCollectionNew(id) ==
    [kind |-> "OrderedCollection", id |-> id,
     Name |-> <<>>, Content |-> <<>>, TotalItems |-> 0, Items |-> <<>>]

\* an ActorNew that takes every type it is handed
ActorNewAnyType(id, typ) ==
    [ID |-> id,
     Type |-> typ,
     Name |-> <<>>, Content |-> <<>>, Summary |-> <<>>,
     InReplyTo |-> <<>>,
     To |-> <<>>, Bto |-> <<>>, CC |-> <<>>, BCC |-> <<>>, Audience |-> <<>>,
     Replies |-> NilItem, Tag |-> <<>>,
     Likes |-> NilItem, Shares |-> NilItem, Source |-> ZeroSource,
     Inbox |-> OrderedCollectionNew("test-inbox"),
     Outbox |-> OrderedCollectionNew("test-outbox"),
     Following |-> NilItem, Followers |-> NilItem,
     Liked |-> OrderedCollectionNew("test-liked"),
     PreferredUsername |-> <<>>,
     Endpoints |-> NilItem, Streams |-> <<>>,
     PublicKey |-> ZeroPublicKey]

ActorNew(id, typ) ==
    [ID |-> id,
     Type |-> IF typ \in ActorTypes THEN typ ELSE "Actor",
     Name |-> <<>>, Content |-> <<>>, Summary |-> <<>>,
     InReplyTo |-> <<>>,
     To |-> <<>>, Bto |-> <<>>, CC |-> <<>>, BCC |-> <<>>, Audience |-> <<>>,
     Replies |-> NilItem, Tag |-> <<>>,
     Likes |-> NilItem, Shares |-> NilItem, Source |-> ZeroSource,
     Inbox |-> OrderedCollectionNew("test-inbox"),
     Outbox |-> OrderedCollectionNew("test-outbox"),
     Following |-> NilItem, Followers |-> NilItem,
     Liked |-> OrderedCollectionNew("test-liked"),
     PreferredUsername |-> <<>>,
     Endpoints |-> NilItem, Streams |-> <<>>,
     PublicKey |-> ZeroPublicKey]

ApplicationNew(id) == ActorNew(id, "Application")
GroupNew(id) == ActorNew(id, "Group")
OrganizationNew(id) == ActorNew(id, "Organization")
PersonNew(id) == ActorNew(id, "Person")
ServiceNew(id) == ActorNew(id, "Service")

\* the ids and types the constructors are handed
ConstructIds ==
    {"", "actor", "https://x/a", "https://x/b", "https://x/c", "https://x/d",
     "https://y/a", "https://y/b", "https://y/c", "https://y/d"}

ConstructTypes == ActorTypes \cup {"", "Actor", "Note", "Robot"}

CallActorNew ==
    /\ \E id \in ConstructIds, typ \in ConstructTypes :
         /\ a' = ActorNew(id, typ)
         /\ ret' = [op |-> "ActorNew", id |-> id, typ |-> typ]
    /\ cleaned' = "never"
    /\ UNCHANGED <<ItemTyperFunc, c, it, p, data, fresh, pc>>

CallRoleNew ==
    /\ \E id \in ConstructIds :
         \/ a' = ApplicationNew(id) /\ ret' = [op |-> "ApplicationNew", id |-> id]
         \/ a' = GroupNew(id) /\ ret' = [op |-> "GroupNew", id |-> id]
         \/ a' = OrganizationNew(id) /\ ret' = [op |-> "OrganizationNew", id |-> id]
         \/ a' = PersonNew(id) /\ ret' = [op |-> "PersonNew", id |-> id]
         \/ a' = ServiceNew(id) /\ ret' = [op |-> "ServiceNew", id |-> id]
    /\ cleaned' = "never"
    /\ UNCHANGED <<ItemTyperFunc, c, it, p, data, fresh, pc>>

RECURSIVE Flatten(_)
Flatten(cols) ==
    IF cols = <<>> THEN <<>> ELSE Head(cols) \o Flatten(Tail(cols))

RECURSIVE DedupInto(_, _)
DedupInto(rec, s) ==
    IF s = <<>> THEN rec
    ELSE LET cur == Head(s)
             seen == \E i \in 1..Len(rec) : GetLink(rec[i]) = GetLink(cur)
         IN  DedupInto(IF seen THEN rec ELSE Append(rec, cur), Tail(s))

\* ItemCollectionDeduplication(cols...): the lists in the order given, each
\* reference kept the first time its identifier is seen
ItemCollectionDeduplication(cols) == DedupInto(<<>>, Flatten(cols))

\* a Recipients that hands the lists over in another order
RecipientsPublicFirst(act) ==
    ItemCollectionDeduplication(<<act.To, act.CC, act.Audience, act.Bto, act.BCC>>)

Recipients(act) ==
    ItemCollectionDeduplication(<<act.To, act.Bto, act.CC, act.BCC, act.Audience>>)

\* a Clean that strips the public secondary audience as well
CleanAlsoCC(act) == [act EXCEPT !.BCC = <<>>, !.Bto = <<>>, !.CC = <<>>]

\* a Clean that forgets bto
CleanKeepsBto(act) == [act EXCEPT !.BCC = <<>>]

CleanActor(act) == [act EXCEPT !.BCC = <<>>, !.Bto = <<>>]

IdSet(s) == {GetLink(s[i]) : i \in 1..Len(s)}

\* how many addressee entries the actor holds
Addressees(act) ==
    Len(act.To) + Len(act.Bto) + Len(act.CC) + Len(act.BCC) + Len(act.Audience)

\* the identifiers the actor discloses, and those it keeps private
PublicIds(act) == IdSet(act.To) \cup IdSet(act.CC) \cup IdSet(act.Audience)
PrivateIds(act) == IdSet(act.Bto) \cup IdSet(act.BCC)

ActorRecipients ==
    /\ ret' = [op |-> "Recipients", val |-> Recipients(a)]
    /\ UNCHANGED <<fresh, pc, ItemTyperFunc, c, a, it, p, data, cleaned>>

ActorClean ==
    /\ a' = CleanActor(a)
    /\ ret' = [op |-> "Clean"]
    /\ cleaned' = IF PrivateIds(a) \ PublicIds(a) # {} \/ cleaned = "stripped"
                  THEN "stripped" ELSE "clean"
    /\ UNCHANGED <<fresh, pc, ItemTyperFunc, c, it, p, data>>

\* the record with none of the three public-key sub-fields
EmptyKeyRecord == [id |-> NotExist, owner |-> NotExist, publicKeyPem |-> NotExist]

\* JSONGetPublicKey(data, prop): a fresh key decoded from the sub-record; its
\* result type has no place for the sub-decode's error
JSONGetPublicKey(doc, key) ==
    LET v == Get(doc, key)
    IN  PublicKeyUnmarshal(ZeroPublicKey,
                           IF v.t = "Object" THEN v.v ELSE EmptyKeyRecord).key

ActorUnmarshal(act, doc) ==
    [act EXCEPT
       !.ID = JSONGetID(doc),
       !.Type = JSONGetType(doc),
       !.Name = JSONGetNaturalLanguageField(doc, "name"),
       !.Content = JSONGetNaturalLanguageField(doc, "content"),
       !.Summary = JSONGetNaturalLanguageField(doc, "summary"),
       !.InReplyTo = IfAny(JSONGetItems(doc, "inReplyTo"), @),
       !.To = IfAny(JSONGetItems(doc, "to"), @),
       !.Audience = IfAny(JSONGetItems(doc, "audience"), @),
       !.Bto = IfAny(JSONGetItems(doc, "bto"), @),
       !.CC = IfAny(JSONGetItems(doc, "cc"), @),
       !.BCC = IfAny(JSONGetItems(doc, "bcc"), @),
       !.Replies = IfNotNil(JSONGetItem(doc, "replies"), @),
       !.Tag = IfAny(JSONGetItems(doc, "tag"), @),
       !.Likes = JSONGetItem(doc, "likes"),
       !.Shares = JSONGetItem(doc, "shares"),
       !.Source = GetAPSource(doc),
       !.PreferredUsername = JSONGetNaturalLanguageField(doc, "preferredUsername"),
       !.Followers = JSONGetItem(doc, "followers"),
       !.Following = JSONGetItem(doc, "following"),
       !.Inbox = JSONGetItem(doc, "inbox"),
       !.Outbox = JSONGetItem(doc, "outbox"),
       !.Liked = JSONGetItem(doc, "liked"),
       !.Endpoints = NilItem,
       !.Streams = <<>>,
       !.PublicKey = JSONGetPublicKey(doc, "publicKey")]

\* the error Actor.UnmarshalJSON returns
ActorUnmarshalErr(doc) == "nil"

\* the identifiers decoded documents address
DocIRIs == {"A", "B"}

\* an actor document: the keys the model decodes, all others missing
ActorDoc(ok, lists, key) ==
    [valid |-> ok, id |-> JString("actor"), type |-> JString("Person"),
     name |-> NotExist, content |-> NotExist, summary |-> NotExist,
     preferredUsername |-> NotExist,
     to |-> lists[1], bto |-> lists[2], cc |-> lists[3], bcc |-> lists[4],
     audience |-> lists[5],
     inReplyTo |-> NotExist, replies |-> NotExist, tag |-> NotExist,
     likes |-> NotExist, shares |-> NotExist, source |-> NotExist,
     followers |-> NotExist, following |-> NotExist, inbox |-> NotExist,
     outbox |-> NotExist, liked |-> NotExist,
     publicKey |-> key]

\* the five addressee keys of a document: each missing or an array of links,
\* at most MaxDocItems links in all
DocLists ==
    {l \in [1..5 -> {NotExist} \cup {JArray(q) : q \in SeqsUpTo(DocIRIs, MaxDocItems) \ {<<>>}}] :
        LET n(i) == IF l[i].t = "Array" THEN Len(l[i].v) ELSE 0
        IN  n(1) + n(2) + n(3) + n(4) + n(5) <= MaxDocItems}

NoLists == [i \in 1..5 |-> NotExist]

\* the public-key records of a document: each of the three sub-fields missing
\* or a string
DocKeys ==
    {JObject(r) : r \in [id : {NotExist, JString("key1")},
                         owner : {NotExist, JString("A")},
                         publicKeyPem : {NotExist, JString("PEM1")}]}

ActorDocs ==
    {ActorDoc(FALSE, NoLists, NotExist)}
    \cup {ActorDoc(TRUE, l, NotExist) : l \in DocLists}
    \cup {ActorDoc(TRUE, NoLists, k) : k \in DocKeys}

\* how complete the public-key record of a document is
PublicKeyStatus(doc) ==
    LET v == Get(doc, "publicKey")
    IN  IF v.t # "Object" THEN "absent"
        ELSE IF \E f \in {"id", "owner", "publicKeyPem"} : v.v[f].t = "NotExist"
             THEN "incomplete"
        ELSE "present"

ActorUnmarshalJSON ==
    /\ \E doc \in ActorDocs :
         LET decoded == ActorUnmarshal(a, doc)
         IN  /\ Addressees(decoded) <= MaxDecoded
             /\ ItemTyperFunc' = DefaultItemTyperFunc(ItemTyperFunc)
             /\ a' = decoded
             /\ ret' = [op |-> "Actor.UnmarshalJSON",
                        err |-> ActorUnmarshalErr(doc),
                        valid |-> doc.valid, publicKey |-> PublicKeyStatus(doc)]
             /\ cleaned' = IF cleaned \in {"clean", "stripped"}
                                /\ PrivateIds(decoded) # {}
                           THEN "repopulated" ELSE cleaned
    /\ UNCHANGED <<fresh, pc, c, it, p, data>>

----------------------------------------------------------------------------
(* Decode calls running at the same time *)

\* the decoder each goroutine calls, on a receiver of its own
Decoder == [g1 |-> "Actor", g2 |-> "Collection"]

\* the documents handed to the decoders that run at the same time
RaceDocs(q) ==
    IF Decoder[q] = "Actor"
    THEN {doc \in ActorDocs : doc.valid /\ doc.publicKey = NotExist}
    ELSE {doc \in CollectionDocs : doc.valid /\ doc.totalItems = NotExist}

\* the call is made and the test ItemTyperFunc == nil is evaluated
DecodeBegin(q) ==
    /\ pc[q].at \in {"idle", "done"}
    /\ \E doc \in RaceDocs(q) :
         pc' = [pc EXCEPT ![q] = [at |-> IF ItemTyperFunc = "nil" THEN "store"
                                         ELSE "body",
                                  doc |-> doc]]
    /\ UNCHANGED <<ItemTyperFunc, c, a, it, p, data, ret, cleaned, fresh>>

\* ItemTyperFunc = JSONGetItemByType
DecodeStore(q) ==
    /\ pc[q].at = "store"
    /\ ItemTyperFunc' = "JSONGetItemByType"
    /\ pc' = [pc EXCEPT ![q].at = "body"]
    /\ UNCHANGED <<c, a, it, p, data, ret, cleaned, fresh>>

\* the fields are read from the document, through the registry hook, and
\* stored in the receiver; the call returns
DecodeBody(q) ==
    /\ pc[q].at = "body"
    /\ pc' = [pc EXCEPT ![q] = [at |-> "done"]]
    /\ IF Decoder[q] = "Actor"
       THEN LET decoded == ActorUnmarshal(a, pc[q].doc)
            IN  /\ Addressees(decoded) <= MaxDecoded
                /\ a' = decoded
                /\ ret' = [op |-> "Actor.UnmarshalJSON",
                           err |-> ActorUnmarshalErr(pc[q].doc),
                           valid |-> pc[q].doc.valid,
                           publicKey |-> PublicKeyStatus(pc[q].doc)]
                /\ UNCHANGED c
       ELSE /\ c' = CollectionUnmarshal(c, pc[q].doc)
            /\ ret' = [op |-> "Collection.UnmarshalJSON", err |-> "nil",
                       valid |-> pc[q].doc.valid]
            /\ UNCHANGED a
    /\ UNCHANGED <<ItemTyperFunc, it, p, data, cleaned, fresh>>

\* two calls whose next accesses to the registry are not ordered, one of
\* them the store
Racing ==
    \E q, r \in Procs :
       q # r /\ pc[q].at = "store" /\ pc[r].at \in {"store", "body"}

----------------------------------------------------------------------------
(* View conversions *)

CollectionOnlyFields == {"Current", "First", "Last", "TotalItems", "Items"}

CollectionFields == SharedFields \cup CollectionOnlyFields

\* an Object: the shared fields and nothing else
ObjectNew(id, typ) ==
    [ID |-> id, Type |-> typ,
     Name |-> <<>>, Content |-> <<>>, Summary |-> <<>>,
     InReplyTo |-> <<>>,
     To |-> <<>>, Bto |-> <<>>, CC |-> <<>>, BCC |-> <<>>, Audience |-> <<>>,
     Replies |-> NilItem, Tag |-> <<>>,
     Likes |-> NilItem, Shares |-> NilItem, Source |-> ZeroSource]

\* a CollectionPage: the Collection fields followed by the page links
CollectionPageNew(id, total) ==
    [ID |-> id, Type |-> "CollectionPage",
     Name |-> <<>>, Content |-> <<>>, Summary |-> <<>>,
     InReplyTo |-> <<>>,
     To |-> <<>>, Bto |-> <<>>, CC |-> <<>>, BCC |-> <<>>, Audience |-> <<>>,
     Replies |-> NilItem, Tag |-> <<>>,
     Likes |-> NilItem, Shares |-> NilItem, Source |-> ZeroSource,
     Current |-> NilItem, First |-> NilItem, Last |-> NilItem,
     TotalItems |-> total, Items |-> <<>>,
     PartOf |-> NilItem, Next |-> NilItem, Prev |-> NilItem]

\* a Go interface value: its dynamic type, whether the pointer it holds is
\* nil, and the value held or pointed to
NilInterface == [dyn |-> "nil", isNil |-> TRUE, val |-> NilItem]
NilPointer(t) == [dyn |-> t, isNil |-> TRUE, val |-> NilItem]
Holding(t, v) == [dyn |-> t, isNil |-> FALSE, val |-> v]

\* a *T result
NilResult == [isNil |-> TRUE, val |-> NilItem]
PointerTo(v) == [isNil |-> FALSE, val |-> v]

\* the zero value of each Actor-only field
ZeroActorOnly ==
    [Inbox |-> NilItem, Outbox |-> NilItem, Following |-> NilItem,
     Followers |-> NilItem, Liked |-> NilItem, PreferredUsername |-> <<>>,
     Endpoints |-> NilItem, Streams |-> <<>>, PublicKey |-> ZeroPublicKey]

\* some other content of the memory an Actor-only field is read from
OtherActorOnly ==
    [Inbox |-> IRIItem("?"), Outbox |-> IRIItem("?"), Following |-> IRIItem("?"),
     Followers |-> IRIItem("?"), Liked |-> IRIItem("?"),
     PreferredUsername |-> <<[lang |-> "?", value |-> "?"]>>,
     Endpoints |-> IRIItem("?"), Streams |-> << <<IRIItem("?")>> >>,
     PublicKey |-> [ID |-> "?", Owner |-> IRIItem("?"), PublicKeyPem |-> "?"]]

\* (*Actor)(unsafe.Pointer(o)) for an Object o: the shared fields are read where
\* the Object holds them, the Actor-only fields past the Object's end, where
\* the memory holds whatever it holds (beyond, for each field the set names)
ActorOver(obj, beyond) ==
    [f \in ActorFields |->
        IF f \in SharedFields THEN obj[f]
        ELSE IF f \in beyond THEN OtherActorOnly[f] ELSE ZeroActorOnly[f]]

\* (*Collection)(unsafe.Pointer(p)) for a CollectionPage p: every Collection
\* field is read where the page holds its own
CollectionOver(page) == [f \in CollectionFields |-> page[f]]

\* the results ToActor(x) can return: (result, error)
ToActor(x) ==
    CASE x.dyn = "*Actor" ->
            {[res |-> [isNil |-> x.isNil, val |-> x.val], err |-> "nil"]}
      [] x.dyn = "Actor" ->
            {[res |-> PointerTo(x.val), err |-> "nil"]}
      [] x.dyn = "*Object" ->
            IF x.isNil THEN {[res |-> NilResult, err |-> "nil"]}
            ELSE {[res |-> PointerTo(ActorOver(x.val, b)), err |-> "nil"] :
                    b \in SUBSET ActorOnlyFields}
      [] x.dyn = "Object" ->
            {[res |-> PointerTo(ActorOver(x.val, b)), err |-> "nil"] :
                b \in SUBSET ActorOnlyFields}
      [] OTHER -> {[res |-> NilResult, err |-> "unable to convert object"]}

\* the results ToCollection(x) can return: (result, error)
ToCollection(x) ==
    CASE x.dyn = "*Collection" ->
            {[res |-> [isNil |-> x.isNil, val |-> x.val], err |-> "nil"]}
      [] x.dyn = "Collection" ->
            {[res |-> PointerTo(x.val), err |-> "nil"]}
      [] x.dyn = "*CollectionPage" ->
            IF x.isNil THEN {[res |-> NilResult, err |-> "nil"]}
            ELSE {[res |-> PointerTo(CollectionOver(x.val)), err |-> "nil"]}
      [] x.dyn = "CollectionPage" ->
            {[res |-> PointerTo(CollectionOver(x.val)), err |-> "nil"]}
      [] OTHER -> {[res |-> NilResult, err |-> "unable to convert to collection"]}

ConvIds == {"https://x/a", "https://x/b"}

\* the Items handed to the conversions: every variant by value and by
\* pointer, the pointers nil too, a bare link and the nil interface
ConvItems ==
    {NilInterface}
    \cup {NilPointer(t) : t \in {"*Actor", "*Object", "*Collection", "*CollectionPage"}}
    \cup {Holding(t, ActorNew(id, typ)) :
            t \in {"*Actor", "Actor"}, id \in ConvIds, typ \in {"Person", "Service"}}
    \cup {Holding(t, ObjectNew(id, typ)) :
            t \in {"*Object", "Object"}, id \in ConvIds, typ \in {"Note", "Person"}}
    \cup {Holding(t, [CollectionNew(id) EXCEPT !.TotalItems = n]) :
            t \in {"*Collection", "Collection"}, id \in ConvIds, n \in 0..1}
    \cup {Holding(t, CollectionPageNew(id, n)) :
            t \in {"*CollectionPage", "CollectionPage"}, id \in ConvIds, n \in 0..1}
    \cup {Holding("IRI", IRIItem(id)) : id \in ConvIds}

CallToActor ==
    /\ \E r \in ToActor(it) :
         ret' = [op |-> "ToActor", res |-> r.res, err |-> r.err]
    /\ UNCHANGED <<fresh, pc, ItemTyperFunc, c, a, it, p, data, cleaned>>

CallToCollection ==
    /\ \E r \in ToCollection(it) :
         ret' = [op |-> "ToCollection", res |-> r.res, err |-> r.err]
    /\ UNCHANGED <<fresh, pc, ItemTyperFunc, c, a, it, p, data, cleaned>>

----------------------------------------------------------------------------
(* Encoding *)

\* what an encoder writes to its buffer: the braces, the comma and one token
\* for a whole "key":value pair
Open == [t |-> "{"]
Close == [t |-> "}"]
Comma == [t |-> ","]
Pair(k, v) == [t |-> "pair", k |-> k, v |-> v]

\* what one property writer did: the tokens it wrote, and whether it wrote
Wrote(k, v) == [out |-> <<Pair(k, v)>>, ok |-> TRUE]
WroteNothing == [out |-> <<>>, ok |-> FALSE]

\* the JSON value of a reference: a bare link is written as its string
ItemValue(i) ==
    IF i.kind = "IRI" THEN JString(i.id)
    ELSE JObject([id |-> JString(i.id), type |-> JString(i.kind)])

\* the JSON value of a natural-language container: the bare text when it has
\* one entry, else an object keyed by language tag
NaturalLanguageValue(nl) ==
    IF Len(nl) = 1 THEN JString(nl[1].value) ELSE JObject(nl)

\* writeItemProp(b, n, i): the pair n:i for a reference that is there
writeItemProp(n, i) ==
    IF i = NilItem THEN WroteNothing ELSE Wrote(n, ItemValue(i))

\* writeItemCollectionProp(b, n, col): the pair n:[...] for a sequence that has
\* entries (the entries encoded here are bare links), nothing for an empty one
writeItemCollectionProp(n, col) ==
    IF Len(col) = 0 THEN WroteNothing
    ELSE Wrote(n, JArray([i \in 1..Len(col) |-> GetLink(col[i])]))

\* writeIntProp(b, n, d): the pair n:d
writeIntProp(n, d) == Wrote(n, JNumber(d))

\* the pair n:text or n:{tag:text,...} for a container that has entries
writeNaturalLanguageProp(n, nl) ==
    IF Len(nl) = 0 THEN WroteNothing ELSE Wrote(n, NaturalLanguageValue(nl))

\* the pair n:"text" for a text that is not empty
writeStringProp(n, str) ==
    IF str = "" THEN WroteNothing ELSE Wrote(n, JString(str))

\* the pair "source":{...} for a Source that is not the zero Source
writeSourceProp(n, src) ==
    IF src = ZeroSource THEN WroteNothing
    ELSE Wrote(n, JObject([content |-> IF Len(src.Content) = 0 THEN NotExist
                                       ELSE NaturalLanguageValue(src.Content),
                           mediaType |-> IF src.MediaType = "" THEN NotExist
                                         ELSE JString(src.MediaType)]))

\* pairs with one comma between each two
RECURSIVE WithCommas(_)
WithCommas(pairs) ==
    IF Len(pairs) <= 1 THEN pairs
    ELSE <<Head(pairs), Comma>> \o WithCommas(Tail(pairs))

\* writeObject(b, o): the fields of the Object shape that are there, id and
\* type first, the others in the order the data model declares them
writeObject(o) ==
    LET pairs == writeStringProp("id", o.ID).out
                 \o writeStringProp("type", o.Type).out
                 \o writeNaturalLanguageProp("name", o.Name).out
                 \o writeItemCollectionProp("audience", o.Audience).out
                 \o writeNaturalLanguageProp("content", o.Content).out
                 \o writeItemCollectionProp("inReplyTo", o.InReplyTo).out
                 \o writeItemProp("replies", o.Replies).out
                 \o writeNaturalLanguageProp("summary", o.Summary).out
                 \o writeItemCollectionProp("tag", o.Tag).out
                 \o writeItemCollectionProp("to", o.To).out
                 \o writeItemCollectionProp("bto", o.Bto).out
                 \o writeItemCollectionProp("cc", o.CC).out
                 \o writeItemCollectionProp("bcc", o.BCC).out
                 \o writeItemProp("likes", o.Likes).out
                 \o writeItemProp("shares", o.Shares).out
                 \o writeSourceProp("source", o.Source).out
    IN  [out |-> WithCommas(pairs), ok |-> pairs # <<>>]

\* OnObject(c, fn): fn is handed the Object the collection begins with
OnObject(col) == [f \in SharedFields |-> col[f]]

\* one guarded block of MarshalJSON: if the field is there, the comma when
\* something was written before, then the property writer
WriteField(st, present, w) ==
    IF present
    THEN [b |-> st.b \o (IF st.notEmpty THEN <<Comma>> ELSE <<>>) \o w.out,
          notEmpty |-> w.ok \/ st.notEmpty]
    ELSE st

\* a MarshalJSON that writes the items ahead of the page references
MarshalJSONItemsFirst(col, nilItems) ==
    LET o == writeObject(OnObject(col))
        s0 == [b |-> <<Open>> \o o.out, notEmpty |-> o.ok]
        s1 == WriteField(s0, ~nilItems, writeItemCollectionProp("items", col.Items))
        s2 == WriteField(s1, col.Current # NilItem, writeItemProp("current", col.Current))
        s3 == WriteField(s2, col.First # NilItem, writeItemProp("first", col.First))
        s4 == WriteField(s3, col.Last # NilItem, writeItemProp("last", col.Last))
        s5 == WriteField(s4, TRUE, writeIntProp("totalItems", col.TotalItems))
    IN  IF s5.notEmpty THEN [out |-> s5.b \o <<Close>>, err |-> "nil"]
        ELSE [out |-> <<>>, err |-> "nil"]

\* a MarshalJSON that forgets the Object part
MarshalJSONNoObject(col, nilItems) ==
    LET s0 == [b |-> <<Open>>, notEmpty |-> FALSE]
        s1 == WriteField(s0, col.Current # NilItem, writeItemProp("current", col.Current))
        s2 == WriteField(s1, col.First # NilItem, writeItemProp("first", col.First))
        s3 == WriteField(s2, col.Last # NilItem, writeItemProp("last", col.Last))
        s4 == WriteField(s3, ~nilItems, writeItemCollectionProp("items", col.Items))
        s5 == WriteField(s4, TRUE, writeIntProp("totalItems", col.TotalItems))
    IN  IF s5.notEmpty THEN [out |-> s5.b \o <<Close>>, err |-> "nil"]
        ELSE [out |-> <<>>, err |-> "nil"]

\* Collection.MarshalJSON of col; nilItems tells whether the Items slice of the
\* receiver is nil (an empty sequence of the model stands for the nil slice
\* and for the slice of length 0 that is not nil): the buffer returned (the
\* empty sequence for nil) and the error
MarshalJSON(col, nilItems) ==
    LET o == writeObject(OnObject(col))
        s0 == [b |-> <<Open>> \o o.out, notEmpty |-> o.ok]
        s1 == WriteField(s0, col.Current # NilItem, writeItemProp("current", col.Current))
        s2 == WriteField(s1, col.First # NilItem, writeItemProp("first", col.First))
        s3 == WriteField(s2, col.Last # NilItem, writeItemProp("last", col.Last))
        s4 == WriteField(s3, ~nilItems, writeItemCollectionProp("items", col.Items))
        s5 == WriteField(s4, TRUE, writeIntProp("totalItems", col.TotalItems))
    IN  IF s5.notEmpty THEN [out |-> s5.b \o <<Close>>, err |-> "nil"]
        ELSE [out |-> <<>>, err |-> "nil"]

\* the context URL the application has configured (jsonld.Ctx)
CtxURL == "https://www.w3.org/ns/activitystreams"

\* jsonld.Marshal, the outermost encode: the document of the entity with the
\* context put in front of its pairs
JsonldMarshal(col, nilItems) ==
    LET m == MarshalJSON(col, nilItems)
        ctx == Pair("@context", JString(CtxURL))
    IN  IF Len(m.out) <= 2 THEN [out |-> <<Open, ctx, Close>>, err |-> m.err]
        ELSE [out |-> <<Open, ctx, Comma>> \o Tail(m.out), err |-> m.err]

\* a buffer is one JSON object: an opening brace, pairs with exactly one
\* comma between each two, a closing brace
WellFormed(b) ==
    /\ Len(b) >= 2
    /\ b[1].t = "{" /\ b[Len(b)].t = "}"
    /\ Len(b) > 2 => Len(b) % 2 = 1
    /\ \A i \in 2..(Len(b) - 1) :
         b[i].t = (IF i % 2 = 0 THEN "pair" ELSE ",")

\* the keys a decoder looks up
DocKeyNames ==
    {"id", "type", "name", "content", "summary", "inReplyTo",
     "to", "bto", "cc", "bcc", "audience", "replies", "tag",
     "likes", "shares", "source",
     "totalItems", "items", "current", "first", "last"}

HasPair(b, k) == \E i \in 1..Len(b) : b[i].t = "pair" /\ b[i].k = k

ValueOf(b, k) ==
    LET i == CHOOSE j \in 1..Len(b) : b[j].t = "pair" /\ b[j].k = k IN b[i].v

\* the document a buffer is to the raw-JSON scanner: no document unless it
\* is one JSON object, else the value under each key written
DocOf(b) ==
    [k \in DocKeyNames \cup {"valid"} |->
        IF k = "valid" THEN WellFormed(b)
        ELSE IF HasPair(b, k) THEN ValueOf(b, k) ELSE NotExist]

\* the zero Collection, what a document is decoded into
ZeroCollection == [CollectionNew("") EXCEPT !.Type = ""]

\* the links the encoded collections refer to
PageIRI == IRIItem("https://x/page")

\* how the application has filled a Collection before it encodes it
MarshalNames ==
    {<<>>, <<[lang |-> "", value |-> "hello"]>>,
     <<[lang |-> "en", value |-> "test"], [lang |-> "fr", value |-> "teste"]>>}

MarshalCollections ==
    {[CollectionNew(id) EXCEPT
        !.Type = typ, !.Name = nm, !.To = to, !.Likes = lk,
        !.Current = cur, !.First = fst, !.Last = lst,
        !.Items = its, !.TotalItems = n] :
        id \in {"", "col"}, typ \in {"", "Collection"}, nm \in MarshalNames,
        to \in {<<>>, <<IRIItem("A")>>},
        lk \in {NilItem, IRIItem("https://x/likes")},
        cur \in {NilItem, PageIRI}, fst \in {NilItem, PageIRI},
        lst \in {NilItem, PageIRI},
        its \in {[i \in 1..Len(q) |-> IRIItem(q[i])] : q \in SeqsUpTo(DocIRIs, MaxDocItems)},
        n \in {0, 1, MaxTotalItems}}

\* whether the Items slice handed to the encoder is nil
NilItemsOf(col) == IF Len(col.Items) = 0 THEN BOOLEAN ELSE {FALSE}

CollectionMarshalJSON ==
    /\ \E nilItems \in NilItemsOf(c) :
         LET m == MarshalJSON(c, nilItems)
         IN  ret' = [op |-> "Collection.MarshalJSON", out |-> m.out,
                     err |-> m.err, nilItems |-> nilItems]
    /\ UNCHANGED <<ItemTyperFunc, c, a, it, p, data, cleaned, fresh, pc>>

CallJsonldMarshal ==
    /\ \E nilItems \in NilItemsOf(c) :
         LET m == JsonldMarshal(c, nilItems)
         IN  ret' = [op |-> "jsonld.Marshal", out |-> m.out,
                     err |-> m.err, nilItems |-> nilItems]
    /\ UNCHANGED <<ItemTyperFunc, c, a, it, p, data, cleaned, fresh, pc>>

\* the buffer the last encode returned is decoded into a zero Collection
DecodeEncoded ==
    /\ ret.op = "Collection.MarshalJSON"
    /\ LET doc == DocOf(ret.out)
       IN  /\ ItemTyperFunc' = DefaultItemTyperFunc(ItemTyperFunc)
           /\ fresh' = CollectionUnmarshal(ZeroCollection, doc)
           /\ ret' = [op |-> "Collection.UnmarshalJSON", err |-> "nil",
                      valid |-> doc.valid, of |-> "encoded"]
    /\ UNCHANGED <<c, a, it, p, data, cleaned, pc>>

----------------------------------------------------------------------------
(* One document decoded into two receivers *)

\* the fields a decoder assigns only when the document has them
KeptFields == {"InReplyTo", "To", "Bto", "CC", "BCC", "Audience", "Replies", "Tag"}

\* what a receiver holds in one of them from earlier use
Earlier(f) == IF f = "Replies" THEN IRIItem("C") ELSE <<IRIItem("C")>>

\* a receiver that holds earlier content in the fields named
Populated(rcv, fields) ==
    [f \in DOMAIN rcv |-> IF f \in fields THEN Earlier(f) ELSE rcv[f]]

\* the zero Actor
ZeroActor ==
    [ActorNew("", "") EXCEPT !.Type = "", !.Inbox = NilItem,
                             !.Outbox = NilItem, !.Liked = NilItem]

\* a document with every key the two decoders look up, all of them missing
\* but id and type
BareDoc ==
    [k \in DOMAIN ActorDoc(TRUE, NoLists, NotExist) \cup DocKeyNames |->
        CASE k = "valid" -> TRUE
          [] k = "id" -> JString("doc")
          [] k = "type" -> JString("Person")
          [] OTHER -> NotExist]

\* the documents decoded into two receivers: some of to, bto, tag and replies
\* mentioned, the other keys missing
ReceiverDocs ==
    {[BareDoc EXCEPT !.to = to, !.bto = bto, !.tag = tag, !.replies = rep] :
        to \in {NotExist, JArray(<<"A">>)}, bto \in {NotExist, JArray(<<"B">>)},
        tag \in {NotExist, JArray(<<"A">>)}, rep \in {NotExist, JString("A")}}

\* one document is decoded in a behaviour, first into the receiver that holds
\* earlier content
DecodeIntoActor ==
    /\ ret = NoRet
    /\ \E doc \in ReceiverDocs :
         /\ a' = ActorUnmarshal(a, doc)
         /\ ret' = [op |-> "Actor.UnmarshalJSON", err |-> ActorUnmarshalErr(doc),
                    valid |-> doc.valid, publicKey |-> PublicKeyStatus(doc),
                    into |-> "a", doc |-> doc]
    /\ ItemTyperFunc' = DefaultItemTyperFunc(ItemTyperFunc)
    /\ UNCHANGED <<c, it, p, data, cleaned, fresh, pc>>

\* the document just decoded into a is decoded into a zero Actor
DecodeIntoFreshActor ==
    /\ ret.op = "Actor.UnmarshalJSON" /\ ret.into = "a"
    /\ fresh' = ActorUnmarshal(ZeroActor, ret.doc)
    /\ ret' = [ret EXCEPT !.into = "fresh"]
    /\ ItemTyperFunc' = DefaultItemTyperFunc(ItemTyperFunc)
    /\ UNCHANGED <<c, a, it, p, data, cleaned, pc>>

DecodeIntoCollection ==
    /\ ret = NoRet
    /\ \E doc \in ReceiverDocs :
         /\ c' = CollectionUnmarshal(c, doc)
         /\ ret' = [op |-> "Collection.UnmarshalJSON", err |-> "nil",
                    valid |-> doc.valid, into |-> "c", doc |-> doc]
    /\ ItemTyperFunc' = DefaultItemTyperFunc(ItemTyperFunc)
    /\ UNCHANGED <<a, it, p, data, cleaned, fresh, pc>>

\* the document just decoded into c is decoded into a zero Collection
DecodeIntoFreshCollection ==
    /\ ret.op = "Collection.UnmarshalJSON" /\ ret.into = "c"
    /\ fresh' = CollectionUnmarshal(ZeroCollection, ret.doc)
    /\ ret' = [ret EXCEPT !.into = "fresh"]
    /\ ItemTyperFunc' = DefaultItemTyperFunc(ItemTyperFunc)
    /\ UNCHANGED <<c, a, it, p, data, cleaned, pc>>

----------------------------------------------------------------------------
(* Specifications *)

\* the state of the parts a specification leaves alone
IdleCollection == c = CollectionNew("col")
IdleActor == a = ActorNew("actor", "Person") /\ cleaned = "never"
IdleConversion == it = NilInterface
IdleKey == p = ZeroPublicKey /\ data = EmptyKeyRecord
IdleSecond == fresh = NilItem
IdleDecodes == pc = [q \in Procs |-> [at |-> "idle"]]

\* the five addressee lists of an actor the application has addressed: at
\* most MaxRecipients references in all
RecipientItems == {IRIItem(x) : x \in IRIs} \cup {ObjectItem("A")}

Addressed(act, s, cut) ==
    [act EXCEPT !.To = SubSeq(s, 1, cut[1]),
                !.Bto = SubSeq(s, cut[1] + 1, cut[2]),
                !.CC = SubSeq(s, cut[2] + 1, cut[3]),
                !.BCC = SubSeq(s, cut[3] + 1, cut[4]),
                !.Audience = SubSeq(s, cut[4] + 1, Len(s))]

\* a collection that is counted, appended to and decoded into
InitCollection ==
    /\ ItemTyperFunc \in {"nil", "custom"}
    /\ c = CollectionNew("col")
    /\ IdleActor /\ IdleConversion /\ IdleKey
    /\ ret = NoRet
    /\ IdleSecond /\ IdleDecodes

NextCollection == CollectionAppend \/ CollectionCount \/ CollectionUnmarshalJSON

SpecCollection == InitCollection /\ [][NextCollection]_vars

\* an addressed actor whose recipients are listed and stripped
InitActor ==
    /\ ItemTyperFunc = "nil"
    /\ \E typ \in {"Person", "Robot"} :
       \E s \in SeqsUpTo(RecipientItems, MaxRecipients) :
       \E cut \in [1..4 -> 0..MaxRecipients] :
         /\ cut[1] <= cut[2] /\ cut[2] <= cut[3] /\ cut[3] <= cut[4]
         /\ cut[4] <= Len(s)
         /\ a = Addressed(ActorNew("actor", typ), s, cut)
    /\ cleaned = "never"
    /\ IdleCollection /\ IdleConversion /\ IdleKey
    /\ ret = NoRet
    /\ IdleSecond /\ IdleDecodes

NextActor == ActorRecipients \/ ActorClean

SpecActor == InitActor /\ [][NextActor]_vars

\* a constructed actor that documents are decoded into
InitDecode ==
    /\ ItemTyperFunc \in {"nil", "custom"}
    /\ \E typ \in {"Person", "Robot"} : a = ActorNew("actor", typ)
    /\ cleaned = "never"
    /\ IdleCollection /\ IdleConversion /\ IdleKey
    /\ ret = NoRet
    /\ IdleSecond /\ IdleDecodes

NextDecode == ActorUnmarshalJSON \/ ActorRecipients \/ ActorClean

SpecDecode == InitDecode /\ [][NextDecode]_vars

\* the view conversions applied to every kind of Item
InitConversion ==
    /\ ItemTyperFunc = "nil"
    /\ it \in ConvItems
    /\ IdleCollection /\ IdleActor /\ IdleKey
    /\ ret = NoRet
    /\ IdleSecond /\ IdleDecodes

NextConversion == CallToActor \/ CallToCollection

SpecConversion == InitConversion /\ [][NextConversion]_vars

\* public-key records decoded into one receiver
InitKey ==
    /\ ItemTyperFunc = "nil"
    /\ IdleCollection /\ IdleActor /\ IdleConversion /\ IdleKey
    /\ ret = NoRet
    /\ IdleSecond /\ IdleDecodes

NextKey == PublicKeyUnmarshalJSON

SpecKey == InitKey /\ [][NextKey]_vars

\* receivers that hold earlier content, and a zero value beside them
InitReceiver ==
    /\ ItemTyperFunc = "nil"
    /\ \E fields \in SUBSET KeptFields :
         /\ a = Populated(ActorNew("actor", "Person"), fields)
         /\ c = Populated(CollectionNew("col"), fields)
    /\ cleaned = "never"
    /\ IdleConversion /\ IdleKey
    /\ ret = NoRet
    /\ IdleSecond /\ IdleDecodes

NextReceiver ==
    \/ DecodeIntoActor \/ DecodeIntoFreshActor
    \/ DecodeIntoCollection \/ DecodeIntoFreshCollection

SpecReceiver == InitReceiver /\ [][NextReceiver]_vars

\* a collection that grows by Append and is asked for its members
InitContains ==
    /\ ItemTyperFunc = "nil"
    /\ IdleCollection /\ IdleActor /\ IdleConversion /\ IdleKey
    /\ ret = NoRet
    /\ IdleSecond /\ IdleDecodes

NextContains == CollectionAppendRef \/ CollectionContains

SpecContains == InitContains /\ [][NextContains]_vars

\* two goroutines that decode documents of their own at the same time
InitRace ==
    /\ ItemTyperFunc \in {"nil", "custom"}
    /\ IdleCollection /\ IdleActor /\ IdleConversion /\ IdleKey
    /\ ret = NoRet
    /\ IdleSecond /\ IdleDecodes

NextRace == \E q \in Procs : DecodeBegin(q) \/ DecodeStore(q) \/ DecodeBody(q)

SpecRace == InitRace /\ [][NextRace]_vars

\* actors made by the constructors
InitConstruct ==
    /\ ItemTyperFunc = "nil"
    /\ IdleCollection /\ IdleActor /\ IdleConversion /\ IdleKey
    /\ ret = NoRet
    /\ IdleSecond /\ IdleDecodes

NextConstruct == CallActorNew \/ CallRoleNew

SpecConstruct == InitConstruct /\ [][NextConstruct]_vars

\* collections the application has filled, encoded and decoded back
InitMarshal ==
    /\ ItemTyperFunc = "nil"
    /\ c \in MarshalCollections
    /\ IdleActor /\ IdleConversion /\ IdleKey
    /\ ret = NoRet
    /\ IdleSecond /\ IdleDecodes

NextMarshal == CollectionMarshalJSON \/ CallJsonldMarshal \/ DecodeEncoded

SpecMarshal == InitMarshal /\ [][NextMarshal]_vars

----------------------------------------------------------------------------
(* Properties *)

Max(x, y) == IF x > y THEN x ELSE y

\* the place an identifier is first seen in a sequence of identifiers
FirstSeen(s, x) == CHOOSE k \in 1..Len(s) : s[k] = x /\ \A m \in 1..(k - 1) : s[m] # x

C2_CountIsMaximum ==
    ret.op = "Count" => ret.val = Max(Len(c.Items), c.TotalItems)

\* C3: Recipients() merges to, bto, cc, bcc and audience into one sequence in
\* which no identifier occurs twice, every identifier of an input list occurs,
\* and identifiers stand in first-seen order; to=[A,B], cc=[B,C], bcc=[D]
\* yields [A,B,C,D].
C3_RecipientsDedup ==
    /\ ret.op = "Recipients" =>
         LET all == Ids(a.To \o a.Bto \o a.CC \o a.BCC \o a.Audience)
             r == Ids(ret.val)
         IN  /\ \A i, j \in 1..Len(r) : i # j => r[i] # r[j]
             /\ Range(r) = Range(all)
             /\ \A i, j \in 1..Len(r) :
                  i < j => FirstSeen(all, r[i]) < FirstSeen(all, r[j])
    /\ Ids(Recipients([ActorNew("actor", "Person") EXCEPT
                         !.To = <<IRIItem("A"), IRIItem("B")>>,
                         !.CC = <<IRIItem("B"), IRIItem("C")>>,
                         !.BCC = <<IRIItem("D")>>]))
         = <<"A", "B", "C", "D">>

\* Recipients() has merged lists that named some identifier more than once, a
\* private list among them
C3_Witness ==
    /\ ret.op = "Recipients"
    /\ Len(ret.val) >= 2
    /\ Addressees(a) > Len(ret.val)
    /\ a.Bto # <<>>

\* C4: a call of Clean() leaves Bto and BCC empty and every other field of the
\* actor as it was.
C4_CleanFrame ==
    [][ret'.op = "Clean" =>
         /\ a'.Bto = <<>> /\ a'.BCC = <<>>
         /\ \A f \in ActorFields \ {"Bto", "BCC"} : a'[f] = a[f]]_vars

\* Clean() has stripped private addressees from an actor that keeps to and cc
C4_Witness ==
    /\ ret.op = "Clean" /\ cleaned = "stripped"
    /\ a.To # <<>> /\ a.CC # <<>>

\* C5 as stated: before Clean(), Recipients() includes every identifier of bto
\* and bcc; once Clean() has been called, every later Recipients() returns
\* only identifiers of to, cc or audience.
C5_NeverReappears ==
    ret.op = "Recipients" =>
      /\ cleaned = "never" => PrivateIds(a) \subseteq IdSet(ret.val)
      /\ cleaned # "never" => IdSet(ret.val) \subseteq PublicIds(a)

\* C5, amended: Recipients() includes every identifier bto and bcc hold at the
\* call; after Clean(), and until a decode stores bto or bcc again, it
\* returns only identifiers of to, cc or audience.
C5_CleanThenRecipients ==
    ret.op = "Recipients" =>
      /\ PrivateIds(a) \subseteq IdSet(ret.val)
      /\ cleaned \in {"clean", "stripped"} => IdSet(ret.val) \subseteq PublicIds(a)

\* Recipients() has answered after a Clean() that removed an identifier only
\* bto or bcc held
C5_Witness ==
    /\ ret.op = "Recipients" /\ cleaned = "stripped"
    /\ ret.val # <<>>

\* C6: ToActor of an Actor succeeds with the same id, ToCollection of it fails
\* with a nil result, and each conversion returns exactly one of a non-nil
\* result and a non-nil error for every Item, the nil ones included.
C6_ExactlyOneOfResultAndError ==
    ret.op \in {"ToActor", "ToCollection"} =>
      /\ ret.res.isNil <=> ret.err # "nil"
      /\ (it.dyn \in {"*Actor", "Actor"} /\ ~it.isNil /\ ret.op = "ToActor") =>
           ~ret.res.isNil /\ ret.res.val.ID = it.val.ID
      /\ (it.dyn \in {"*Actor", "Actor"} /\ ret.op = "ToCollection") =>
           ret.res.isNil /\ ret.err # "nil"

\* C7: ToActor of an Object (ToCollection of a CollectionPage) returns a value
\* whose shared fields are the source's and whose target-only fields are
\* their zero values.
C7_SharedCopiedOthersZero ==
    /\ (ret.op = "ToActor" /\ it.dyn \in {"*Object", "Object"} /\ ~it.isNil) =>
         /\ \A f \in SharedFields : ret.res.val[f] = it.val[f]
         /\ \A f \in ActorOnlyFields : ret.res.val[f] = ZeroActorOnly[f]
    /\ (ret.op = "ToCollection" /\ it.dyn \in {"*CollectionPage", "CollectionPage"}
          /\ ~it.isNil) =>
         \A f \in CollectionFields : ret.res.val[f] = it.val[f]

KeyFieldNames == {"id", "owner", "publicKeyPem"}

\* C8 as stated: PublicKey.UnmarshalJSON returns an error whenever one of id,
\* owner, publicKeyPem is missing, and no error, with all three fields set,
\* when all are present.
C8_ErrorIffMissing ==
    ret.op = "PublicKey.UnmarshalJSON" =>
      IF \E f \in KeyFieldNames : data[f].t = "NotExist"
      THEN ret.err # "nil"
      ELSE /\ ret.err = "nil"
           /\ p.ID # "" /\ p.Owner # NilItem /\ p.PublicKeyPem # ""

\* C8, amended: PublicKey.UnmarshalJSON returns an error whenever one of id,
\* owner, publicKeyPem is missing or is no string, and no error, with the three
\* fields set to the record's, when all three are strings.
C8_ErrorIffNotAllStrings ==
    ret.op = "PublicKey.UnmarshalJSON" =>
      IF \E f \in KeyFieldNames : data[f].t # "String"
      THEN ret.err # "nil"
      ELSE /\ ret.err = "nil"
           /\ p.ID = data.id.v
           /\ p.Owner = IRIItem(data.owner.v)
           /\ p.PublicKeyPem = data.publicKeyPem.v

\* a record with id and owner but no publicKeyPem has been refused
C8_Witness ==
    /\ ret.op = "PublicKey.UnmarshalJSON" /\ ret.err # "nil"
    /\ data.id.t = "String" /\ data.owner.t = "String"
    /\ data.publicKeyPem.t = "NotExist"

\* C9: decoding an actor document whose publicKey record lacks a required
\* sub-field returns a decode error.
C9_KeyErrorPropagates ==
    (ret.op = "Actor.UnmarshalJSON" /\ ret.publicKey = "incomplete") =>
      ret.err # "nil"

\* C10: decoding an Actor or a Collection returns an error if and only if the
\* top-level input is no valid JSON document.
C10_ErrorIffMalformed ==
    ret.op \in {"Actor.UnmarshalJSON", "Collection.UnmarshalJSON"} =>
      (ret.err # "nil" <=> ~ret.valid)

\* C11: decoding the JSON object Collection.MarshalJSON wrote for a Collection
\* made by CollectionNew gives a Collection equal to the one encoded, whatever
\* fields it was given (likes, current/first/last, items, totalItems, ...),
\* the omitted empty fields decoding to their zero values.
C11_RoundTrip ==
    (ret.op = "Collection.UnmarshalJSON" /\ ret.of = "encoded"
       /\ c.Type = "Collection" /\ ret.valid) => fresh = c

\* the order in which an encoded Collection carries its keys
KeyOrder ==
    <<"@context", "id", "type", "name", "audience", "content", "inReplyTo",
      "replies", "summary", "tag", "to", "bto", "cc", "bcc", "likes", "shares",
      "source", "current", "first", "last", "items", "totalItems">>

Position(k) == CHOOSE i \in 1..Len(KeyOrder) : KeyOrder[i] = k

\* the keys of the pairs of a buffer, in the order written
PairKeys(b) ==
    LET pairs == SelectSeq(b, LAMBDA t : t.t = "pair")
    IN  [i \in 1..Len(pairs) |-> pairs[i].k]

\* C12: Collection.MarshalJSON writes the Object fields first and then
\* current, first, last, items, totalItems in that order; a current, first or
\* last that is absent and an items sequence that is empty get no key at all,
\* so no key written carries null, an empty object or an empty array.
C12_ObjectFirstThenOwnFields ==
    ret.op = "Collection.MarshalJSON" =>
      LET keys == PairKeys(ret.out)
      IN  /\ \A i, j \in 1..Len(keys) :
                i < j => Position(keys[i]) < Position(keys[j])
          /\ c.Current = NilItem => ~HasPair(ret.out, "current")
          /\ c.First = NilItem => ~HasPair(ret.out, "first")
          /\ c.Last = NilItem => ~HasPair(ret.out, "last")
          /\ Len(c.Items) = 0 => ~HasPair(ret.out, "items")
          /\ \A k \in {"current", "first", "last"} :
                HasPair(ret.out, k) => ValueOf(ret.out, k).t = "String"
          /\ HasPair(ret.out, "items") =>
                /\ ValueOf(ret.out, "items").t = "Array"
                /\ Len(ValueOf(ret.out, "items").v) = Len(c.Items)
          /\ HasPair(ret.out, "totalItems")

\* a Collection with Object fields, items, a first page and no current page
\* has been encoded
C12_Witness ==
    /\ ret.op = "Collection.MarshalJSON"
    /\ c.ID # "" /\ c.Name # <<>> /\ c.To # <<>>
    /\ c.Current = NilItem /\ c.First # NilItem /\ c.Last # NilItem
    /\ Len(c.Items) > 0
    /\ PairKeys(ret.out) = <<"id", "type", "name", "to", "first", "last",
                             "items", "totalItems">>

RoleOf ==
    [ApplicationNew |-> "Application", GroupNew |-> "Group",
     OrganizationNew |-> "Organization", PersonNew |-> "Person",
     ServiceNew |-> "Service"]

\* C13: ActorNew(id, typ) and the five role constructors return an actor with
\* the id given, the type typ when it is one of Application, Group,
\* Organization, Person, Service (the role's type for a role constructor) and
\* Actor for any other, empty name, content, summary and preferredUsername,
\* inbox, outbox and liked each an empty ordered collection of its own, and
\* following and followers unset.
C13_ConstructedActor ==
    ret.op \in {"ActorNew"} \cup DOMAIN RoleOf =>
      /\ a.ID = ret.id
      /\ ret.op = "ActorNew" =>
            a.Type = (IF ret.typ \in {"Application", "Group", "Organization",
                                      "Person", "Service"}
                      THEN ret.typ ELSE "Actor")
      /\ ret.op # "ActorNew" => a.Type = RoleOf[ret.op]
      /\ a.Name = <<>> /\ a.Content = <<>> /\ a.Summary = <<>>
      /\ a.PreferredUsername = <<>>
      /\ \A f \in {"Inbox", "Outbox", "Liked"} :
            /\ a[f].kind = "OrderedCollection"
            /\ a[f].Items = <<>> /\ a[f].TotalItems = 0
      /\ a.Inbox # a.Outbox /\ a.Inbox # a.Liked /\ a.Outbox # a.Liked
      /\ a.Following = NilItem /\ a.Followers = NilItem

\* ActorNew has been handed a type that is no actor type
C13_Witness ==
    /\ ret.op = "ActorNew" /\ ret.typ = "Robot" /\ ret.id = "https://x/a"
    /\ a.Type = "Actor"

\* C14: however decode calls on different documents interleave, no step of
\* a decode writes the registry, no two calls are ever about to access it
\* unordered with one of them writing, and a registry value the application
\* installed is never replaced.
C14_DecodesOnlyReadRegistry ==
    [][/\ ItemTyperFunc' = ItemTyperFunc
       /\ ~Racing'
       /\ ItemTyperFunc = "custom" => ItemTyperFunc' = "custom"]_vars

\* C16: Contains(r) is false for a collection without items and otherwise
\* true exactly when the link of some item equals r in the tolerant mode; so
\* it is true for the link of every item appended, however many Appends
\* followed; and Append puts the item behind the earlier ones, which keep
\* their order, duplicates included.
C16_ContainsAfterAppend ==
    [][/\ ret'.op = "Contains" =>
            /\ Len(c'.Items) = 0 => ret'.val = FALSE
            /\ ret'.val = (\E i \in 1..Len(c'.Items) :
                              LET l == GetLink(c'.Items[i])
                              IN  l.host = ret'.r.host /\ l.path = ret'.r.path)
            /\ (\E i \in 1..Len(c'.Items) : GetLink(c'.Items[i]) = ret'.r) =>
                  ret'.val = TRUE
       /\ ret'.op = "Append" =>
            /\ Len(c'.Items) = Len(c.Items) + 1
            /\ SubSeq(c'.Items, 1, Len(c.Items)) = c.Items
            /\ c'.Items[Len(c'.Items)] = ret'.ob]_vars

\* Contains has found a link that only the tolerant mode finds, in a
\* collection that holds an item twice
C16_Witness ==
    /\ ret.op = "Contains" /\ ret.val = TRUE
    /\ \A i \in 1..Len(c.Items) : GetLink(c.Items[i]) # ret.r
    /\ Len(c.Items) = 3 /\ c.Items[1] = c.Items[3] /\ c.Items[1] # c.Items[2]

\* C18: what a decode leaves in the receiver depends on the document alone:
\* one document decoded into a zero value and into a receiver that held
\* to, bto, cc, bcc, audience, tag, inReplyTo or replies the document does not
\* mention gives equal values.
C18_DecodeDependsOnDocumentOnly ==
    /\ (ret.op = "Actor.UnmarshalJSON" /\ ret.into = "fresh") => a = fresh
    /\ (ret.op = "Collection.UnmarshalJSON" /\ ret.into = "fresh") => c = fresh

\* the texts a natural-language value written to a buffer carries
TextsOf(v) ==
    IF v.t = "String" THEN {v.v} ELSE {v.v[i].value : i \in 1..Len(v.v)}

\* C15: encoding an entity that has an id, a type and a name of one or more
\* language entries writes the id, the type and the text of every entry; the
\* outermost encode also writes the configured context URL.
C15_WritesPresentFields ==
    (ret.op \in {"Collection.MarshalJSON", "jsonld.Marshal"}
       /\ c.ID # "" /\ c.Type # "" /\ Len(c.Name) >= 1) =>
      /\ HasPair(ret.out, "id") /\ ValueOf(ret.out, "id").v = c.ID
      /\ HasPair(ret.out, "type") /\ ValueOf(ret.out, "type").v = c.Type
      /\ HasPair(ret.out, "name")
      /\ \A i \in 1..Len(c.Name) :
            c.Name[i].value \in TextsOf(ValueOf(ret.out, "name"))
      /\ ret.op = "jsonld.Marshal" =>
            /\ HasPair(ret.out, "@context")
            /\ ValueOf(ret.out, "@context").v = CtxURL

\* the outermost encode has written a Collection named in two languages
C15_Witness ==
    /\ ret.op = "jsonld.Marshal"
    /\ c.ID = "col" /\ c.Type = "Collection" /\ Len(c.Name) = 2
    /\ TextsOf(ValueOf(ret.out, "name")) = {"test", "teste"}

\* C17: whatever of current, first, last and items is there, whatever
\* totalItems is, and whether or not an Object field was written,
\* Collection.MarshalJSON returns one JSON object: one opening and one
\* closing brace and exactly one comma between each two pairs, none leading,
\* trailing or doubled.
C17_WellFormedObject ==
    ret.op = "Collection.MarshalJSON" =>
      ret.err = "nil" /\ WellFormed(ret.out)

====
